---- MODULE Spec2Model ----
(***************************************************************************)
(* Model of the SafeComm analysis relays (Next.js route handlers):          *)
(*   analyze-message/route.ts          POST  (revision answering 503/500)  *)
(*   unnamed/part_001                  POST  (revision with SAFE fallback) *)
(*   preview-message/route.ts 21-97    POST  (single upstream call)        *)
(*   preview-message/route.ts 119-242  POST  (policy-check + analysis)     *)
(* A request is served step by step, one step per await of the handler.   *)
(* The later sections model the browser clients and the configuration      *)
(* route, each with a specification of its own over the same state:        *)
(*   SpecSend        ChatRoom.handleSendMessage and the message documents  *)
(*   SpecPlayback    AudioAnalysis.playAudioChunk / stopAudioStreaming     *)
(*   SpecSocket      the realtime-analysis WebSocket and its reconnects    *)
(*   SpecAudio       the audio session (start, stop, socket, microphone)   *)
(*   SpecAudioRoute  GET and POST of app/api/audio-analysis/route.ts       *)
(*   SpecPreview     the debounced preview of the chat input               *)
(*   SpecProxy       the routing of nginx.conf in front of app and backend *)
(*   SpecScript      the start script of the container and its services    *)
(***************************************************************************)
EXTENDS Integers, Sequences, FiniteSets, TLC

\* ------------------------------------------------------------------------
\* JSON values.  Every scalar has the same shape [t, s, n] so that values of
\* different JavaScript types can be compared:
\*   t = "undef"  undefined (absent property)
\*   t = "str"    string s
\*   t = "num"    number, n in hundredths (50 is 0.5)
\*   t = "bool"   n = 1 true, n = 0 false
\*   t = "arr"    array of n elements (s tags its content)
\*   t = "obj"    nested object; n = length of its risk_indicators array,
\*                -1 when it has no risk_indicators property
\* ------------------------------------------------------------------------
Undefined == [t |-> "undef", s |-> "", n |-> 0]
Str(x) == [t |-> "str", s |-> x, n |-> 0]
Num(x) == [t |-> "num", s |-> "", n |-> x]
Bool(b) == [t |-> "bool", s |-> "", n |-> IF b THEN 1 ELSE 0]
Arr(tag, len) == [t |-> "arr", s |-> tag, n |-> len]
Obj(indicators) == [t |-> "obj", s |-> "", n |-> indicators]

\* JavaScript truthiness of a value (operand of ?: and ||).
Truthy(v) ==
  CASE v.t = "undef" -> FALSE
    [] v.t = "str" -> v.s # ""
    [] v.t = "num" -> v.n # 0
    [] v.t = "bool" -> v.n = 1
    [] OTHER -> TRUE

\* a || b
OrElse(a, b) == IF Truthy(a) THEN a ELSE b

\* A JSON text on the wire: wf = FALSE is a text JSON.parse rejects, isNull is
\* the literal null, ws marks insignificant whitespace between the tokens,
\* members are the name/value pairs in textual order (names may repeat).
Text(ms, ws) == [wf |-> TRUE, isNull |-> FALSE, ws |-> ws, members |-> ms]
NullText == [wf |-> TRUE, isNull |-> TRUE, ws |-> FALSE, members |-> <<>>]
GarbageText == [wf |-> FALSE, isNull |-> FALSE, ws |-> FALSE, members |-> <<>>]

\* Value of property k in the member list ms: the last occurrence wins.
RECURSIVE LastValue(_, _)
LastValue(ms, k) ==
  IF ms = <<>> THEN Undefined
  ELSE IF ms[Len(ms)][1] = k THEN ms[Len(ms)][2]
  ELSE LastValue(SubSeq(ms, 1, Len(ms) - 1), k)

\* Properties of the parsed object: one entry per name, in the order of the
\* first occurrence, carrying the value of the last occurrence.
RECURSIVE OwnProperties(_, _)
OwnProperties(ms, all) ==
  IF ms = <<>> THEN <<>>
  ELSE LET rest == OwnProperties(SubSeq(ms, 1, Len(ms) - 1), all)
           k == ms[Len(ms)][1]
       IN IF \E i \in 1..(Len(ms) - 1) : ms[i][1] = k
          THEN rest
          ELSE Append(rest, <<k, LastValue(all, k)>>)

\* request.json() / response.json(): ok = FALSE when the promise rejects.
ParseJSON(text) ==
  IF ~text.wf THEN [ok |-> FALSE, isNull |-> FALSE, props |-> <<>>]
  ELSE [ok |-> TRUE, isNull |-> text.isNull,
        props |-> OwnProperties(text.members, text.members)]

\* JSON.stringify(value) / NextResponse.json(value): compact text, properties
\* whose value is undefined are left out.
StringifyJSON(val) ==
  [wf |-> TRUE, isNull |-> val.isNull, ws |-> FALSE,
   members |-> SelectSeq(val.props, LAMBDA m : m[2].t # "undef")]

\* Object literal { k1: v1, ... } as a parsed value.
Literal(ms) == [ok |-> TRUE, isNull |-> FALSE, props |-> ms]
\* null (policyResult / analysisResult before assignment)
NullValue == [ok |-> TRUE, isNull |-> TRUE, props |-> <<>>]

\* value.k  (only evaluated on non-null values) and value?.k
Get(val, k) == LastValue(val.props, k)
OptGet(val, k) == IF val.isNull THEN Undefined ELSE Get(val, k)

\* ------------------------------------------------------------------------
\* Inputs: the route revisions, the Authorization headers, the request
\* bodies and the answers of the identity provider and of the ADK backend.
\* ------------------------------------------------------------------------
MaxRequests == 2

Handlers == {"analyze_route", "analyze_fallback", "preview_single", "preview_merge"}
AnalyzeHandlers == {"analyze_route", "analyze_fallback"}
PreviewHandlers == {"preview_single", "preview_merge"}

\* Authorization header: scheme is the text up to and including the first
\* blank ("" when the header is missing), token the rest.
Header(scheme, token) == [scheme |-> scheme, token |-> token]
AuthHeaders ==
  { Header("", ""), Header("Basic ", "tokA"), Header("bearer ", "tokA"),
    Header("Bearer ", ""), Header("Bearer ", "forged"),
    Header("Bearer ", "tokA"), Header("Bearer ", "tokB") }

\* The tokens the identity provider accepts, with the identity they carry.
\* tokB belongs to an account without an email address.
ValidTokens == {"tokA", "tokB"}
Identity(token) ==
  IF token = "tokA" THEN [uid |-> Str("u1"), email |-> Str("e1")]
  ELSE [uid |-> Str("u2"), email |-> Undefined]
NoIdentity == [uid |-> Undefined, email |-> Undefined]

Msg == <<"message", Str("hello")>>
Stamp == <<"timestamp", Str("2024-06-01T00:00:00Z")>>
Uid(x) == <<"user_id", Str(x)>>
BodyTexts ==
  { GarbageText, NullText,
    Text(<<Msg, Uid("u1"), Stamp>>, FALSE),
    Text(<<Msg, Uid("e1"), Stamp>>, TRUE),
    Text(<<Msg, Uid("u2"), <<"room_id", Str("r1")>>, Stamp>>, FALSE),
    Text(<<Msg, Uid("intruder"), Stamp>>, FALSE),
    Text(<<Msg, Stamp>>, FALSE),
    Text(<<Uid("intruder"), Msg, Uid("u1")>>, TRUE) }

\* Bodies of 2xx answers of the backend, per endpoint.
AnalysisTexts ==
  { GarbageText, NullText,
    Text(<< <<"risk_level", Str("SAFE")>>, <<"confidence", Num(95)>>,
            <<"detailed_analysis", Obj(0)>> >>, FALSE),
    Text(<< <<"risk_level", Str("WARNING")>>, <<"confidence", Num(70)>>,
            <<"detailed_analysis", Obj(2)>> >>, TRUE),
    Text(<< <<"risk_level", Str("DANGER")>>, <<"confidence", Num(100)>> >>, FALSE),
    Text(<< <<"risk_level", Str("SAFE")>>, <<"confidence", Num(0)>>,
            <<"detailed_analysis", Obj(-1)>> >>, FALSE) }
PolicyTexts ==
  { GarbageText, NullText,
    Text(<< <<"violation_detected", Bool(FALSE)>>, <<"confidence_score", Num(90)>>,
            <<"explanation", Str("compliant")>> >>, FALSE),
    Text(<< <<"violation_detected", Bool(TRUE)>>, <<"confidence_score", Num(80)>>,
            <<"explanation", Str("harassment")>>, <<"suggestions", Arr("rephrase", 1)>>,
            <<"keywords_detected", Arr("insult", 1)>> >>, TRUE),
    Text(<< <<"violation_detected", Bool(TRUE)>>, <<"confidence_score", Num(0)>> >>, FALSE),
    Text(<< <<"confidence_score", Num(60)>> >>, FALSE) }
PreviewTexts ==
  { GarbageText,
    Text(<< <<"has_warnings", Bool(TRUE)>>, <<"has_violations", Bool(FALSE)>>,
            <<"suggestion", Str("reconsider")>> >>, FALSE) }

\* State of a fetch(): pending, rejected (network failure or timeout) or
\* resolved with an HTTP response.
Pending == [kind |-> "pending", ok |-> FALSE, text |-> GarbageText]
Rejected(why) == [kind |-> why, ok |-> FALSE, text |-> GarbageText]
Http(ok, text) == [kind |-> "http", ok |-> ok, text |-> text]
IsRejected(r) == r.kind \in {"network_error", "timeout"}
OkTexts(endpoint) ==
  CASE endpoint = "/api/analyze-message" -> AnalysisTexts
    [] endpoint = "/api/policy-check" -> PolicyTexts
    [] OTHER -> PreviewTexts
Replies(endpoint) ==
  {Rejected("network_error"), Rejected("timeout"), Http(FALSE, GarbageText)}
    \cup {Http(TRUE, t) : t \in OkTexts(endpoint)}

\* ------------------------------------------------------------------------
\* The pieces of the POST handlers.
\* ------------------------------------------------------------------------
Response(status, val) == [status |-> status, body |-> StringifyJSON(val)]
NoResponse == [status |-> 0, body |-> NullText]
ErrorBody(msg) == Literal(<< <<"error", Str(msg)>> >>)

\* !authHeader || !authHeader.startsWith('Bearer ')  is false
HeaderOk(h) == h.scheme = "Bearer "

\* authHeader.split('Bearer ')[1]
IdTokenOf(h) == h.token

\* Slip: the catch block of the verification does not return.
VerifyIdToken_NoCheck(idToken) == [ok |-> TRUE, decoded |-> Identity(idToken)]

\* adminAuth.verifyIdToken(idToken) inside its try/catch: ok = FALSE when the
\* catch block answers 401.
VerifyIdToken(idToken) ==
  IF idToken \in ValidTokens
  THEN [ok |-> TRUE, decoded |-> Identity(idToken)]
  ELSE [ok |-> FALSE, decoded |-> NoIdentity]

\* Slip: a body without user_id skips the check.
UserIdMismatch_Optional(b, decoded) ==
  /\ Get(b, "user_id") # Undefined
  /\ Get(b, "user_id") # decoded.email
  /\ Get(b, "user_id") # decoded.uid

\* body.user_id !== decodedToken.email && body.user_id !== decodedToken.uid
UserIdMismatch(b, decoded) ==
  Get(b, "user_id") # decoded.email /\ Get(b, "user_id") # decoded.uid

\* Slip: the fallback carries the default confidence of the merged response.
Fallback_Confident(suggestion, notes) ==
  Literal(<< <<"risk_level", Str("SAFE")>>, <<"confidence", Num(85)>>,
             <<"detected_issues", Arr("", 0)>>, <<"suggestions", Arr(suggestion, 1)>>,
             <<"flagged_content", Arr("", 0)>>, <<"processing_time_ms", Num(0)>>,
             <<"compliance_notes", Str(notes)>>, <<"detailed_analysis", Obj(-1)>> >>)

\* The fixed fallback object of the analysis relays.
Fallback(suggestion, notes) ==
  Literal(<< <<"risk_level", Str("SAFE")>>, <<"confidence", Num(50)>>,
             <<"detected_issues", Arr("", 0)>>, <<"suggestions", Arr(suggestion, 1)>>,
             <<"flagged_content", Arr("", 0)>>, <<"processing_time_ms", Num(0)>>,
             <<"compliance_notes", Str(notes)>>, <<"detailed_analysis", Obj(-1)>> >>)

\* The fallback object of the single-call preview relay.
PreviewFallback ==
  Literal(<< <<"has_warnings", Bool(FALSE)>>, <<"has_violations", Bool(FALSE)>>,
             <<"preview_warnings", Arr("", 0)>>, <<"preview_violations", Arr("", 0)>>,
             <<"suggestion", Str("message can be sent")>> >>)

\* Slip: every revision answers 500 from its outer catch block.
OuterCatch_500(h) == Response(500, ErrorBody("Internal server error"))

\* The outer catch block of each revision.
OuterCatch(h) ==
  CASE h = "analyze_route" -> Response(500, ErrorBody("Internal server error"))
    [] h = "analyze_fallback" -> Response(200, Fallback("unexpected error", "system error"))
    [] h = "preview_single" -> Response(200, PreviewFallback)
    [] OTHER -> Response(200, Fallback("analysis failed by error", "error during analysis"))

\* A fetch() call just started: endpoint, request body, no reply yet.
Call(endpoint, val) == [endpoint |-> endpoint, sent |-> StringifyJSON(val), reply |-> Pending]

\* Body of the policy-check call.
PolicyRequest(b) ==
  Literal(<< <<"message", Get(b, "message")>>, <<"user_id", Get(b, "user_id")>>,
             <<"policies", Arr("policy", 4)>> >>)

\* Slip: the analysis relays rebuild the body from the known fields instead
\* of forwarding it.
UpstreamCalls_Rebuilt(h, b) ==
  CASE h \in AnalyzeHandlers ->
         << Call("/api/analyze-message",
                 Literal(<< <<"message", Get(b, "message")>>,
                            <<"user_id", Get(b, "user_id")>> >>)) >>
    [] h = "preview_single" -> << Call("/api/preview-message", b) >>
    [] OTHER -> << Call("/api/policy-check", PolicyRequest(b)),
                   Call("/api/analyze-message", b) >>

\* Slip: the analysis relays start their call a second time.
UpstreamCalls_Twice(h, b) ==
  CASE h \in AnalyzeHandlers ->
         << Call("/api/analyze-message", b), Call("/api/analyze-message", b) >>
    [] h = "preview_single" -> << Call("/api/preview-message", b) >>
    [] OTHER -> << Call("/api/policy-check", PolicyRequest(b)),
                   Call("/api/analyze-message", b) >>

\* The fetch() calls a revision starts once the user id check has passed, in
\* the order they are started.
UpstreamCalls(h, b) ==
  CASE h \in AnalyzeHandlers -> << Call("/api/analyze-message", b) >>
    [] h = "preview_single" -> << Call("/api/preview-message", b) >>
    [] OTHER -> << Call("/api/policy-check", PolicyRequest(b)),
                   Call("/api/analyze-message", b) >>

\* analyze-message/route.ts from the settled fetch on.
AnalyzeRouteResult(r) ==
  IF IsRejected(r) THEN OuterCatch("analyze_route")
  ELSE IF ~r.ok THEN Response(503, ErrorBody("Analysis service unavailable"))
  ELSE IF ~ParseJSON(r.text).ok THEN OuterCatch("analyze_route")
  ELSE Response(200, ParseJSON(r.text))

\* unnamed/part_001 from the settled fetch on.
AnalyzeFallbackResult(r) ==
  IF IsRejected(r) THEN Response(200, Fallback("backend unreachable", "connection error"))
  ELSE IF ~r.ok THEN Response(200, Fallback("analysis service unavailable", "analysis service error"))
  ELSE IF ~ParseJSON(r.text).ok
       THEN Response(200, Fallback("backend unreachable", "connection error"))
  ELSE Response(200, ParseJSON(r.text))

\* preview-message/route.ts (single call) from the settled fetch on.
PreviewSingleResult(r) ==
  IF IsRejected(r) THEN OuterCatch("preview_single")
  ELSE IF ~r.ok THEN Response(200, PreviewFallback)
  ELSE IF ~ParseJSON(r.text).ok THEN OuterCatch("preview_single")
  ELSE Response(200, ParseJSON(r.text))

\* Slip: the body is read without looking at response.ok.
ResultOf_Unchecked(r) == ParseJSON(r.text)

\* policyResult / analysisResult: null unless the response is ok.
ResultOf(r) == IF r.ok THEN ParseJSON(r.text) ELSE NullValue

\* analysisResult?.detailed_analysis?.risk_indicators?.length > 0
HasRiskIndicators(analysisResult) ==
  LET d == OptGet(analysisResult, "detailed_analysis")
  IN d.t = "obj" /\ d.n > 0

\* Slip: the risk indicators are looked at before the violation.
MergedRiskLevel_IndicatorsFirst(policyResult, analysisResult) ==
  IF OptGet(analysisResult, "detailed_analysis").t = "obj"
     /\ OptGet(analysisResult, "detailed_analysis").n > 0 THEN "WARNING"
  ELSE IF Truthy(OptGet(policyResult, "violation_detected")) THEN "DANGER"
  ELSE "SAFE"

\* risk_level of structuredResponse
MergedRiskLevel(policyResult, analysisResult) ==
  IF Truthy(OptGet(policyResult, "violation_detected")) THEN "DANGER"
  ELSE IF HasRiskIndicators(analysisResult) THEN "WARNING"
  ELSE "SAFE"

\* structuredResponse
StructuredResponse(policyResult, analysisResult) ==
  Literal(<<
    <<"risk_level", Str(MergedRiskLevel(policyResult, analysisResult))>>,
    <<"confidence", OrElse(OptGet(policyResult, "confidence_score"), Num(85))>>,
    <<"detected_issues",
      IF Truthy(OptGet(policyResult, "violation_detected"))
      THEN Arr(Get(policyResult, "explanation").s, 1) ELSE Arr("", 0)>>,
    <<"suggestions", OrElse(OptGet(policyResult, "suggestions"), Arr("", 0))>>,
    <<"flagged_content", OrElse(OptGet(policyResult, "keywords_detected"), Arr("", 0))>>,
    <<"processing_time_ms", Num(10000)>>,
    <<"compliance_notes", OptGet(policyResult, "explanation")>>,
    <<"detailed_analysis", OrElse(OptGet(analysisResult, "detailed_analysis"), Obj(-1))>> >>)

\* Promise.all([...]) is settled: rejected as soon as one fetch is rejected,
\* resolved when every fetch is resolved.
AllSettled(cs) ==
  \/ \E i \in 1..Len(cs) : IsRejected(cs[i].reply)
  \/ \A i \in 1..Len(cs) : cs[i].reply.kind = "http"

\* preview-message/route.ts (merging revision) from the settled Promise.all on.
PreviewMergeResult(policyResponse, analysisResponse) ==
  IF IsRejected(policyResponse) \/ IsRejected(analysisResponse)
    THEN Response(200, Fallback("backend error", "analysis service unavailable"))
  ELSE IF ~ResultOf(policyResponse).ok \/ ~ResultOf(analysisResponse).ok
    THEN Response(200, Fallback("backend error", "analysis service unavailable"))
  ELSE Response(200, StructuredResponse(ResultOf(policyResponse), ResultOf(analysisResponse)))

\* The response of revision h once its upstream calls cs are settled.
Result(h, cs) ==
  CASE h = "analyze_route" -> AnalyzeRouteResult(cs[1].reply)
    [] h = "analyze_fallback" -> AnalyzeFallbackResult(cs[1].reply)
    [] h = "preview_single" -> PreviewSingleResult(cs[1].reply)
    [] OTHER -> PreviewMergeResult(cs[1].reply, cs[2].reply)

\* ------------------------------------------------------------------------
\* State.
\*   pc            position of the request being served: "idle", "header",
\*                 "verify", "body", "fetch" or "done"
\*   handler       the route revision serving it
\*   authHeader    its Authorization header
\*   bodyText      its body as received
\*   decodedToken  the verified identity (NoIdentity before verification)
\*   accepted      the request has passed the user id check
\*   calls         the fetch() calls started for it, with their replies
\*   response      the response returned (NoResponse before)
\*   served        number of requests answered so far
\*   upstreamCalls number of fetch() calls started so far, over all requests
\*   callsAtStart  value of upstreamCalls when the request arrived
\* ------------------------------------------------------------------------
VARIABLES pc, handler, authHeader, bodyText, decodedToken, accepted, calls,
          response, served, upstreamCalls, callsAtStart

relayVars == <<pc, handler, authHeader, bodyText, decodedToken, accepted, calls,
               response, served, upstreamCalls, callsAtStart>>

\* State of the chat send path (ChatRoom.handleSendMessage and the message
\* collection of Firestore):
\*   messages     the documents of the collection 'messages', by id
\*   sends        the invocations of handleSendMessage, each at one await
\*   updateCalls  the calls of updateMessageAnalysis made so far
\*   draft        the text of the input box (the state 'message' of the
\*                component) and the number of texts composed so far
\*   isAnalyzing  the state isAnalyzing, which disables the send button
\*   lastMessage  the field lastMessage of the room's document
VARIABLES messages, sends, updateCalls, draft, isAnalyzing, lastMessage

sendVars == <<messages, sends, updateCalls, draft, isAnalyzing, lastMessage>>

SendInit ==
  /\ messages = <<>>
  /\ sends = <<>>
  /\ updateCalls = <<>>
  /\ draft = [text |-> "", n |-> 0]
  /\ isAnalyzing = FALSE
  /\ lastMessage = [written |-> FALSE, content |-> ""]

\* State of the playback of the AI's audio (AudioAnalysis.playAudioChunk):
\*   playbackContext  playbackAudioContextRef: "none", "suspended", "running"
\*   currentTime      audioContext.currentTime, in ticks of one frame time
\*   nextStartTime    nextStartTimeRef.current
\*   scheduled        the source.start(startTime) calls made so far
\*   resuming         chunks whose playAudioChunk awaits audioContext.resume()
\*   chunksHandled    number of playAudioChunk invocations
\*   stoppedSince     stopAudioStreaming ran since the last source.start
VARIABLES playbackContext, currentTime, nextStartTime, scheduled, resuming,
          chunksHandled, stoppedSince

playbackVars == <<playbackContext, currentTime, nextStartTime, scheduled,
                  resuming, chunksHandled, stoppedSince>>

PlaybackInit ==
  /\ playbackContext = "none"
  /\ currentTime = 0
  /\ nextStartTime = 0
  /\ scheduled = <<>>
  /\ resuming = <<>>
  /\ chunksHandled = 0
  /\ stoppedSince = FALSE

\* State of the realtime-analysis WebSocket of the chat clients (ChatRoom and
\* the two revisions of ChatInterface):
\*   revision           which client is mounted: "room", "capped", "unconditional"
\*   mountState         "new", "mounted", "unmounted"
\*   sockets            the WebSocket objects created so far
\*   wsRef              index of wsRef.current in sockets, 0 for null
\*   timers             pending setTimeout callbacks that call connectWebSocket
\*   reconnectAttempts  the counter of the capped revision
\*   scheduledSinceOpen reconnects scheduled since the last onopen (or mount)
\*   tries              invocations of connectWebSocket since mount
\*   everOpened         some socket has opened
\*   lastClose          the last close event handled: its code and the timer
\*                      its handler scheduled
\*   roomChanges        number of changes of room.id since the mount
VARIABLES revision, mountState, sockets, wsRef, timers, reconnectAttempts,
          scheduledSinceOpen, tries, everOpened, lastClose, roomChanges

socketVars == <<revision, mountState, sockets, wsRef, timers, reconnectAttempts,
                scheduledSinceOpen, tries, everOpened, lastClose, roomChanges>>

SocketInit ==
  /\ revision = "room"
  /\ mountState = "new"
  /\ sockets = <<>>
  /\ wsRef = 0
  /\ timers = <<>>
  /\ reconnectAttempts = 0
  /\ scheduledSinceOpen = 0
  /\ tries = 0
  /\ everOpened = FALSE
  /\ lastClose = [code |-> 0, scheduled |-> 0, delay |-> 0]
  /\ roomChanges = 0

\* State of the audio session (AudioAnalysis):
\*   audioMounted    the component is mounted
\*   isListening     the state isListening (which button is shown)
\*   stopRan         stopListening has run and startListening not since
\*   starts          number of startListening invocations
\*   configFetches   connectWebSocket calls awaiting getWebSocketConfig
\*   micRequests     startListening calls awaiting getUserMedia
\*   audioSockets    the audio WebSocket objects created so far
\*   websocketRef    index of websocketRef.current in audioSockets, 0 for null
\*   streams         the microphone streams obtained so far (TRUE = live)
\*   streamRef       index of streamRef.current in streams, 0 for null
\*   liveProcessors  connected ScriptProcessor nodes
\*   processorRef    processorRef.current is set
\*   audioClose      the last close event handled: its code and whether the
\*                   handler started a reconnect
VARIABLES audioMounted, isListening, stopRan, starts, configFetches, micRequests,
          audioSockets, websocketRef, streams, streamRef, liveProcessors,
          processorRef, audioClose

audioVars == <<audioMounted, isListening, stopRan, starts, configFetches,
               micRequests, audioSockets, websocketRef, streams, streamRef,
               liveProcessors, processorRef, audioClose>>

AudioInit ==
  /\ audioMounted = TRUE
  /\ isListening = FALSE
  /\ stopRan = FALSE
  /\ starts = 0
  /\ configFetches = 0
  /\ micRequests = 0
  /\ audioSockets = <<>>
  /\ websocketRef = 0
  /\ streams = <<>>
  /\ streamRef = 0
  /\ liveProcessors = 0
  /\ processorRef = FALSE
  /\ audioClose = [code |-> 0, reconnect |-> FALSE]

\* State of the debounced preview of the chat input (handleRealtimeAnalysis):
\*   previewClient      the client in use: "none" before one is opened, then
\*                      "ChatRoom", "part_002" (with the detection mode
\*                      toggle) or "ChatInterface"
\*   message            the text of the input box
\*   isAnalysisMode     the detection mode (always on without the toggle)
\*   previewTimers      the pending preview timers: id, text, ms since set
\*   previewTimeoutRef  previewTimeoutRef.current: id of the last timer set
\*   sinceChange        ms since the last input change (at most the delay)
\*   changes            number of input changes
\*   lastRequest        the last preview request issued: its text, the text
\*                      of the input box, sinceChange and the detection
\*                      mode at that moment
\*   previewRequests    the preview requests in flight: id and text
\*   realtimeAnalysis   the preview shown: none (null) or the result for a
\*                      text
VARIABLES previewClient, message, isAnalysisMode, previewTimers,
          previewTimeoutRef, sinceChange, changes, lastRequest,
          previewRequests, realtimeAnalysis

previewVars == <<previewClient, message, isAnalysisMode, previewTimers,
                 previewTimeoutRef, sinceChange, changes, lastRequest,
                 previewRequests, realtimeAnalysis>>

PreviewInit ==
  /\ previewClient = "none"
  /\ message = ""
  /\ isAnalysisMode = TRUE
  /\ previewTimers = <<>>
  /\ previewTimeoutRef = 0
  /\ sinceChange = 0
  /\ changes = 0
  /\ lastRequest = [issued |-> FALSE, text |-> "", latest |-> "", quiet |-> 0,
                    mode |-> TRUE]
  /\ previewRequests = <<>>
  /\ realtimeAnalysis = [shown |-> FALSE, text |-> ""]

\* State of the start script of the container (start.sh, and part_008 which
\* also starts nginx):
\*   launcher   the script in use: "start.sh" or "part_008"
\*   scriptPc   "new", "launching" (up to the trap), "wait" (wait -n),
\*              "shutdown" (before kill), "waitall" (the wait of shutdown),
\*              "exited" (exit or errexit), "killed" (by a signal)
\*   services   the state of each service: "none" (not started), "running",
\*              "signalled" (SIGTERM sent by kill), "exited", and its status
\*   trapSet    trap shutdown SIGTERM SIGINT has been executed
VARIABLES launcher, scriptPc, services, trapSet

scriptVars == <<launcher, scriptPc, services, trapSet>>

ScriptInit ==
  /\ launcher = "start.sh"
  /\ scriptPc = "new"
  /\ services = [s \in {"backend", "frontend", "nginx"} |->
                   [state |-> "none", status |-> 0]]
  /\ trapSet = FALSE

\* The state of the browser clients and of the start script, which the
\* relays never touch.
clientVars == <<sendVars, playbackVars, socketVars, audioVars, previewVars,
                scriptVars>>

\* What the actions of one component leave alone.
notSend == <<relayVars, playbackVars, socketVars, audioVars, previewVars, scriptVars>>
notPlayback == <<relayVars, sendVars, socketVars, audioVars, previewVars, scriptVars>>
notSocket == <<relayVars, sendVars, playbackVars, audioVars, previewVars, scriptVars>>
notAudio == <<relayVars, sendVars, socketVars, previewVars, scriptVars>>
notPreview == <<relayVars, sendVars, playbackVars, socketVars, audioVars, scriptVars>>
notScript == <<relayVars, sendVars, playbackVars, socketVars, audioVars, previewVars>>

vars == <<relayVars, clientVars>>

Init ==
  /\ pc = "idle"
  /\ handler = "analyze_route"
  /\ authHeader = Header("", "")
  /\ bodyText = NullText
  /\ decodedToken = NoIdentity
  /\ accepted = FALSE
  /\ calls = <<>>
  /\ response = NoResponse
  /\ served = 0
  /\ upstreamCalls = 0
  /\ callsAtStart = 0
  /\ SendInit
  /\ PlaybackInit
  /\ SocketInit
  /\ AudioInit
  /\ PreviewInit
  /\ ScriptInit

\* A request arrives at one of the route revisions.
Receive ==
  /\ pc = "idle"
  /\ served < MaxRequests
  /\ \E h \in Handlers, a \in AuthHeaders, b \in BodyTexts :
       /\ handler' = h
       /\ authHeader' = a
       /\ bodyText' = b
  /\ pc' = "header"
  /\ decodedToken' = NoIdentity
  /\ accepted' = FALSE
  /\ calls' = <<>>
  /\ response' = NoResponse
  /\ callsAtStart' = upstreamCalls
  /\ UNCHANGED <<served, upstreamCalls>>
  /\ UNCHANGED clientVars

Finish(r) ==
  /\ response' = r
  /\ pc' = "done"
  /\ served' = served + 1

\* The check of the Authorization header.
CheckHeader ==
  /\ pc = "header"
  /\ IF HeaderOk(authHeader)
     THEN pc' = "verify" /\ UNCHANGED <<response, served>>
     ELSE Finish(Response(401, ErrorBody("Unauthorized: Missing or invalid token")))
  /\ UNCHANGED <<handler, authHeader, bodyText, decodedToken, accepted, calls,
                 upstreamCalls, callsAtStart>>
  /\ UNCHANGED clientVars

\* await adminAuth.verifyIdToken(idToken)
VerifyToken ==
  /\ pc = "verify"
  /\ LET v == VerifyIdToken(IdTokenOf(authHeader))
     IN IF v.ok
        THEN /\ decodedToken' = v.decoded
             /\ pc' = "body"
             /\ UNCHANGED <<response, served>>
        ELSE /\ Finish(Response(401, ErrorBody("Unauthorized: Invalid token")))
             /\ UNCHANGED decodedToken
  /\ UNCHANGED <<handler, authHeader, bodyText, accepted, calls, upstreamCalls,
                 callsAtStart>>
  /\ UNCHANGED clientVars

\* await request.json(), the user id check and the start of the fetch() calls.
\* A body that does not parse, or the body null (reading user_id of null
\* throws), ends in the outer catch block.
ReadBody ==
  /\ pc = "body"
  /\ LET b == ParseJSON(bodyText)
     IN IF ~b.ok \/ b.isNull
        THEN /\ Finish(OuterCatch(handler))
             /\ UNCHANGED <<accepted, calls, upstreamCalls>>
        ELSE IF UserIdMismatch(b, decodedToken)
        THEN /\ Finish(Response(403, ErrorBody("Forbidden: User ID mismatch")))
             /\ UNCHANGED <<accepted, calls, upstreamCalls>>
        ELSE /\ accepted' = TRUE
             /\ calls' = UpstreamCalls(handler, b)
             /\ upstreamCalls' = upstreamCalls + Len(UpstreamCalls(handler, b))
             /\ pc' = "fetch"
             /\ UNCHANGED <<response, served>>
  /\ UNCHANGED <<handler, authHeader, bodyText, decodedToken, callsAtStart>>
  /\ UNCHANGED clientVars

\* The backend answers one pending call, or the call fails.
UpstreamSettles ==
  /\ pc = "fetch"
  /\ \E i \in 1..Len(calls) :
       /\ calls[i].reply = Pending
       /\ \E r \in Replies(calls[i].endpoint) :
            calls' = [calls EXCEPT ![i].reply = r]
  /\ UNCHANGED <<pc, handler, authHeader, bodyText, decodedToken, accepted,
                 response, served, upstreamCalls, callsAtStart>>
  /\ UNCHANGED clientVars

\* The awaited fetch (or Promise.all) is settled: the rest of the handler.
Respond ==
  /\ pc = "fetch"
  /\ AllSettled(calls)
  /\ Finish(Result(handler, calls))
  /\ UNCHANGED <<handler, authHeader, bodyText, decodedToken, accepted, calls,
                 upstreamCalls, callsAtStart>>
  /\ UNCHANGED clientVars

\* The response has been sent; the server waits for the next request.
NextRequest ==
  /\ pc = "done"
  /\ pc' = "idle"
  /\ UNCHANGED <<handler, authHeader, bodyText, decodedToken, accepted, calls,
                 response, served, upstreamCalls, callsAtStart>>
  /\ UNCHANGED clientVars

Next ==
  \/ Receive
  \/ CheckHeader
  \/ VerifyToken
  \/ ReadBody
  \/ UpstreamSettles
  \/ Respond
  \/ NextRequest

Spec == Init /\ [][Next]_vars

\* ------------------------------------------------------------------------
\* Properties.  The requests are classified by what arrived (header and body
\* as received, replies as sent by the backend), the outcome by the response.
\* ------------------------------------------------------------------------
Serving == pc \in {"header", "verify", "body", "fetch", "done"}
Answered == pc = "done"

\* The token verifies / the request is unauthenticated.
Verified == authHeader.scheme = "Bearer " /\ authHeader.token \in ValidTokens
Unauthenticated == ~Verified

\* user_id of the body as received (undefined when the body has none).
HasObjectBody == bodyText.wf /\ ~bodyText.isNull
BodyUserId == LastValue(bodyText.members, "user_id")
UserIdDisagrees ==
  /\ HasObjectBody
  /\ BodyUserId # Identity(authHeader.token).email
  /\ BodyUserId # Identity(authHeader.token).uid
PassesAuthChecks == Verified /\ HasObjectBody /\ ~UserIdDisagrees

NoUpstreamCall == calls = <<>> /\ upstreamCalls = callsAtStart

\* Property k of the response body.
ResponseField(k) == LastValue(response.body.members, k)
IsFixedFallback ==
  ResponseField("risk_level") = Str("SAFE") /\ ResponseField("confidence") = Num(50)

\* A call failed: the fetch was rejected (network failure, timeout) or the
\* backend answered with a non-2xx status.
NonOk(r) == r.kind = "http" /\ ~r.ok
Failed(r) == IsRejected(r) \/ NonOk(r)
OkJSON(r) == r.kind = "http" /\ r.ok /\ r.text.wf

\* C1: an unauthenticated request to any revision of the analysis/preview
\* endpoints (header missing, not starting with 'Bearer ', or token rejected
\* by the verification) is answered 401 and starts no upstream call.
C1_UnauthenticatedIs401 ==
  /\ (Serving /\ Unauthenticated) => NoUpstreamCall
  /\ (Answered /\ Unauthenticated) => response.status = 401

C1_Witness ==
  /\ Answered /\ handler = "preview_merge"
  /\ authHeader = Header("Bearer ", "forged")
  /\ response.status = 401
  /\ served = 2 /\ upstreamCalls = 2

\* C2: a verified request whose body user_id equals neither the verified
\* email nor the verified uid is answered 403 without upstream call, and 403
\* is never the answer to a request whose token did not verify.
C2_MismatchIs403 ==
  /\ (Serving /\ Verified /\ UserIdDisagrees) => NoUpstreamCall
  /\ (Answered /\ Verified /\ UserIdDisagrees) => response.status = 403
  /\ (Answered /\ response.status = 403) => Verified

C2_Witness ==
  /\ Answered /\ Verified /\ UserIdDisagrees
  /\ BodyUserId = Str("u1")
  /\ response.status = 403

\* C3: an accepted analyze-message request whose upstream call times out,
\* fails at the network level or answers non-2xx is answered 200 with
\* risk_level SAFE and confidence 0.5.
C3_AnalyzeFailureIsFallback ==
  (Answered /\ handler \in AnalyzeHandlers /\ PassesAuthChecks /\ Failed(calls[1].reply))
    => (response.status = 200 /\ IsFixedFallback)

\* C4: an accepted analyze-message request answered 2xx with JSON by the
\* backend: the response carries the backend's JSON value (no field added,
\* removed or changed) and the backend was sent the value of the body received.
C4_AnalyzePassThrough ==
  (Answered /\ handler \in AnalyzeHandlers /\ PassesAuthChecks /\ OkJSON(calls[1].reply))
    => /\ response.status = 200
       /\ ParseJSON(response.body) = ParseJSON(calls[1].reply.text)
       /\ ParseJSON(calls[1].sent) = ParseJSON(bodyText)

C4_Witness ==
  /\ Answered /\ handler = "analyze_route" /\ PassesAuthChecks
  /\ OkJSON(calls[1].reply)
  /\ bodyText.ws /\ Len(bodyText.members) > Len(calls[1].sent.members)
  /\ ResponseField("risk_level") = Str("WARNING")

\* The two calls of the merging preview revision.
Merging == Answered /\ handler = "preview_merge" /\ PassesAuthChecks
PolicyReply == calls[1].reply
AnalysisReply == calls[2].reply

\* What the backend's answers say, read from the texts it sent.
ViolationReported ==
  OkJSON(PolicyReply) /\ LastValue(PolicyReply.text.members, "violation_detected") = Bool(TRUE)
IndicatorsReported ==
  /\ OkJSON(AnalysisReply)
  /\ LastValue(AnalysisReply.text.members, "detailed_analysis").t = "obj"
  /\ LastValue(AnalysisReply.text.members, "detailed_analysis").n > 0
PolicyScore ==
  IF OkJSON(PolicyReply) /\ LastValue(PolicyReply.text.members, "confidence_score").t = "num"
     /\ LastValue(PolicyReply.text.members, "confidence_score").n # 0
  THEN LastValue(PolicyReply.text.members, "confidence_score") ELSE Num(85)
AnalysisDetail ==
  IF OkJSON(AnalysisReply) /\ LastValue(AnalysisReply.text.members, "detailed_analysis").t = "obj"
  THEN LastValue(AnalysisReply.text.members, "detailed_analysis") ELSE Obj(-1)

\* The merged response is built from the results at hand.
BuiltFromResults ==
  /\ response.status = 200
  /\ ResponseField("risk_level") =
       Str(IF ViolationReported THEN "DANGER"
           ELSE IF IndicatorsReported THEN "WARNING" ELSE "SAFE")
  /\ ResponseField("confidence") = PolicyScore
  /\ ResponseField("detailed_analysis") = AnalysisDetail

C5_WitnessNonOk ==
  /\ Merging /\ NonOk(PolicyReply) /\ IndicatorsReported
  /\ ResponseField("risk_level") = Str("WARNING")
  /\ ResponseField("confidence") = Num(85)

\* C6: preview-message answers 401, 403 or 200 and nothing else; whatever
\* fails after the auth checks (body not parseable, backend unreachable,
\* non-2xx, answer not JSON) is answered 200.
C6_PreviewStatuses ==
  (Answered /\ handler \in PreviewHandlers)
    => /\ response.status \in {401, 403, 200}
       /\ (Verified /\ ~UserIdDisagrees) => response.status = 200

C6_Witness ==
  /\ Answered /\ handler = "preview_single" /\ Verified
  /\ bodyText = GarbageText
  /\ response.status = 200

\* C7: in the merging preview revision, when both calls have answered, the
\* merged risk_level is DANGER if the policy result reports a violation,
\* otherwise WARNING if the analysis result carries a risk indicator,
\* otherwise SAFE.
C7_RiskPrecedence ==
  (Merging /\ PolicyReply.kind = "http" /\ AnalysisReply.kind = "http"
     /\ (PolicyReply.ok => PolicyReply.text.wf)
     /\ (AnalysisReply.ok => AnalysisReply.text.wf))
    => ResponseField("risk_level") =
         Str(IF ViolationReported THEN "DANGER"
             ELSE IF IndicatorsReported THEN "WARNING" ELSE "SAFE")

C7_Witness ==
  /\ Merging /\ ViolationReported /\ IndicatorsReported
  /\ ResponseField("risk_level") = Str("DANGER")

\* C8 as stated: when exactly one of the two calls fails, by network error or
\* by non-2xx status, the response is still built from the other call's
\* result and the failed call is not started again.
ExactlyOneFailed ==
  \/ Failed(PolicyReply) /\ OkJSON(AnalysisReply)
  \/ Failed(AnalysisReply) /\ OkJSON(PolicyReply)
C8_PartialFailure ==
  (Merging /\ ExactlyOneFailed)
    => (BuiltFromResults /\ Len(calls) = 2 /\ upstreamCalls = callsAtStart + 2)

\* C8 amended: when exactly one of the two calls answers non-2xx, only that
\* call's section is absent and the response is built from the other call's
\* result; when exactly one fails by network error the response is the fixed
\* SAFE fallback and the other result is dropped; the failed call is never
\* started again.
ExactlyOneNonOk ==
  \/ NonOk(PolicyReply) /\ OkJSON(AnalysisReply)
  \/ NonOk(AnalysisReply) /\ OkJSON(PolicyReply)
ExactlyOneRejected ==
  \/ IsRejected(PolicyReply) /\ OkJSON(AnalysisReply)
  \/ IsRejected(AnalysisReply) /\ OkJSON(PolicyReply)
C8_PartialFailureAmended ==
  /\ (Merging /\ ExactlyOneNonOk) => BuiltFromResults
  /\ (Merging /\ ExactlyOneRejected) => (response.status = 200 /\ IsFixedFallback)
  /\ (Merging /\ ExactlyOneFailed) => (Len(calls) = 2 /\ upstreamCalls = callsAtStart + 2)

C8_Witness ==
  /\ Merging /\ NonOk(AnalysisReply) /\ ViolationReported
  /\ ResponseField("risk_level") = Str("DANGER")
  /\ ResponseField("confidence") = Num(80)
  /\ ResponseField("detailed_analysis") = Obj(-1)

\* C9: a request that passes the auth checks starts exactly one upstream call
\* in analyze-message and exactly two (policy-check, then analyze-message) in
\* the merging preview-message, whatever the earlier requests were and
\* whether or not a call fails.
C9_CallsPerRequest ==
  (pc \in {"fetch", "done"} /\ PassesAuthChecks)
    => /\ upstreamCalls = callsAtStart + Len(calls)
       /\ handler \in AnalyzeHandlers =>
            (Len(calls) = 1 /\ calls[1].endpoint = "/api/analyze-message")
       /\ handler = "preview_merge" =>
            /\ Len(calls) = 2
            /\ calls[1].endpoint = "/api/policy-check"
            /\ calls[2].endpoint = "/api/analyze-message"

C9_Witness ==
  /\ Answered /\ handler = "analyze_fallback" /\ PassesAuthChecks
  /\ Failed(calls[1].reply)
  /\ served = 2 /\ callsAtStart = 2 /\ upstreamCalls = 3

\* C10: every body returned with status 200 by the analyze-message and
\* preview-message relays has risk_level SAFE, WARNING or DANGER and a
\* confidence within [0, 1].
C10_AnalysisObjectShape ==
  (Answered /\ response.status = 200)
    => /\ ResponseField("risk_level") \in {Str("SAFE"), Str("WARNING"), Str("DANGER")}
       /\ ResponseField("confidence").t = "num"
       /\ ResponseField("confidence").n >= 0
       /\ ResponseField("confidence").n <= 100

\* ------------------------------------------------------------------------
\* Chat send path: ChatRoom.handleSendMessage, the helpers sendMessage and
\* updateMessageAnalysis, and the Firestore collection 'messages'.  The
\* Enter key invokes the handler whether or not an earlier send is still
\* running, so invocations overlap.
\* ------------------------------------------------------------------------
MaxSends == 2
MaxDrafts == 1

\* The text of the input box when the handler is invoked.
InputTexts == {"", " ", "hello"}
\* message.trim()
Trim(text) == IF text = " " THEN "" ELSE text

\* The answers of POST /api/analyze-message as the browser receives them.
RelayAnswers ==
  { Rejected("network_error"),
    Http(FALSE, StringifyJSON(ErrorBody("Analysis service temporarily unavailable"))),
    Http(TRUE, GarbageText),
    Http(TRUE, NullText),
    Http(TRUE, StringifyJSON(Fallback("retry later", "analysis unavailable"))),
    Http(TRUE, Text(<< <<"risk_level", Str("WARNING")>>, <<"confidence", Num(70)>>,
                       <<"risk_level", Str("DANGER")>> >>, TRUE)) }

\* The analysis field of a message document.
Absent == [present |-> FALSE, val |-> NullValue]
Stored(val) == [present |-> TRUE, val |-> val]

\* One invocation of handleSendMessage: what invoked it, the await it stands
\* at, the text it read from the input box and the number of that draft, how
\* its call of sendMessage settled, the id that call returned, the relay's
\* answer.
SendRun(by, at, d) ==
  [by |-> by, pc |-> at, text |-> d.text, draft |-> d.n,
   sendMessage |-> "pending", messageId |-> 0, reply |-> Pending]

\* The end of handleSendMessage: setMessage(''); setIsAnalyzing(false).
Returns ==
  /\ draft' = [draft EXCEPT !.text = ""]
  /\ isAnalyzing' = FALSE

\* Slip: the analysis is stored whatever the status of the answer.
ResponseOk_Any(r) == TRUE

\* if (response.ok)
ResponseOk(r) == r.ok

\* setDoc(ref, { analysis }, { merge: true }) on the document d: the field is
\* set when it was absent or either side is not an object, else the members
\* of the written object replace those of the same name.
SetDocMerge(d, val) ==
  IF ~d.analysis.present \/ d.analysis.val.isNull \/ val.isNull
  THEN [d EXCEPT !.analysis = Stored(val)]
  ELSE [d EXCEPT !.analysis =
          Stored(Literal(SelectSeq(d.analysis.val.props,
                                   LAMBDA m : Get(val, m[1]) = Undefined)
                         \o val.props))]

\* onChange of the input box: the user composes a text.
Compose ==
  /\ draft.n < MaxDrafts
  /\ \E text \in InputTexts \ {draft.text} :
       draft' = [text |-> text, n |-> draft.n + 1]
  /\ UNCHANGED <<messages, sends, updateCalls, isAnalyzing, lastMessage>>

\* handleSendMessage is invoked by the send button, which is disabled on an
\* empty input and while isAnalyzing, or by the Enter key, which is not.  It
\* returns at once on an empty input, else it sets isAnalyzing and awaits
\* sendMessage.
HandleSendMessage ==
  /\ Len(sends) < MaxSends
  /\ \E by \in {"button", "enter"} :
       /\ by = "button" => Trim(draft.text) # "" /\ ~isAnalyzing
       /\ IF Trim(draft.text) = ""
          THEN /\ sends' = Append(sends, SendRun(by, "returned", draft))
               /\ UNCHANGED isAnalyzing
          ELSE /\ sends' = Append(sends, SendRun(by, "addDoc", draft))
               /\ isAnalyzing' = TRUE
  /\ UNCHANGED <<messages, updateCalls, draft, lastMessage>>

\* sendMessage: addDoc creates the document and yields its id, or rejects
\* (then the catch block of the handler runs).  createdBy records the
\* invocation that created the document.
AddDoc ==
  \E i \in 1..Len(sends) :
    /\ sends[i].pc = "addDoc"
    /\ \/ /\ messages' = Append(messages, [content |-> sends[i].text,
                                           analysis |-> Absent, createdBy |-> i])
          /\ sends' = [sends EXCEPT ![i].pc = "lastMessage",
                                    ![i].messageId = Len(messages) + 1]
          /\ UNCHANGED <<draft, isAnalyzing>>
       \/ /\ sends' = [sends EXCEPT ![i].pc = "done",
                                    ![i].sendMessage = "rejected"]
          /\ Returns
          /\ UNCHANGED messages
    /\ UNCHANGED <<updateCalls, lastMessage>>

\* sendMessage: the room's lastMessage is written (the texts of InputTexts
\* are shorter than the 50 characters it keeps) and the id is returned; when
\* that write rejects (the network, or the rule of chatRooms for a user who
\* is no participant), sendMessage rethrows and the handler never learns
\* the id.
SetLastMessage ==
  \E i \in 1..Len(sends) :
    /\ sends[i].pc = "lastMessage"
    /\ \/ /\ sends' = [sends EXCEPT ![i].pc = "fetch",
                                    ![i].sendMessage = "resolved"]
          /\ lastMessage' = [written |-> TRUE, content |-> sends[i].text]
          /\ UNCHANGED <<draft, isAnalyzing>>
       \/ /\ sends' = [sends EXCEPT ![i].pc = "done", ![i].messageId = 0,
                                    ![i].sendMessage = "rejected"]
          /\ Returns
          /\ UNCHANGED lastMessage
    /\ UNCHANGED <<messages, updateCalls>>

\* The fetch of /api/analyze-message settles.  On an ok answer whose body
\* parses, updateMessageAnalysis(messageId, analysis) is called.
RelayAnswered ==
  \E i \in 1..Len(sends), r \in RelayAnswers :
    /\ sends[i].pc = "fetch"
    /\ IF ~IsRejected(r) /\ ResponseOk(r) /\ ParseJSON(r.text).ok
       THEN /\ sends' = [sends EXCEPT ![i].pc = "update", ![i].reply = r]
            /\ updateCalls' = Append(updateCalls,
                 [by |-> i, id |-> sends[i].messageId,
                  analysis |-> ParseJSON(r.text), state |-> "pending"])
            /\ UNCHANGED <<draft, isAnalyzing>>
       ELSE /\ sends' = [sends EXCEPT ![i].pc = "done", ![i].reply = r]
            /\ Returns
            /\ UNCHANGED updateCalls
    /\ UNCHANGED <<messages, lastMessage>>

\* updateMessageAnalysis: the setDoc settles (written, or rejected and
\* rethrown into the catch block of the handler).
UpdateMessageAnalysis ==
  \E k \in 1..Len(updateCalls) :
    /\ updateCalls[k].state = "pending"
    /\ \/ /\ messages' = [messages EXCEPT ![updateCalls[k].id] =
                            SetDocMerge(@, updateCalls[k].analysis)]
          /\ updateCalls' = [updateCalls EXCEPT ![k].state = "written"]
       \/ /\ updateCalls' = [updateCalls EXCEPT ![k].state = "rejected"]
          /\ UNCHANGED messages
    /\ sends' = [sends EXCEPT ![updateCalls[k].by].pc = "done"]
    /\ Returns
    /\ UNCHANGED lastMessage

NextSend ==
  \/ Compose /\ UNCHANGED notSend
  \/ HandleSendMessage /\ UNCHANGED notSend
  \/ AddDoc /\ UNCHANGED notSend
  \/ SetLastMessage /\ UNCHANGED notSend
  \/ RelayAnswered /\ UNCHANGED notSend
  \/ UpdateMessageAnalysis /\ UNCHANGED notSend

SpecSend == Init /\ [][NextSend]_vars

CallsBy(i) == {k \in 1..Len(updateCalls) : updateCalls[k].by = i}
WritesTo(m) ==
  {k \in 1..Len(updateCalls) :
     updateCalls[k].id = m /\ updateCalls[k].state = "written"}

\* C11: every invocation of handleSendMessage calls updateMessageAnalysis at
\* most once, with the id of the document its own sendMessage created and
\* only after an ok answer of the relay; every message document is written
\* at most once and holds no analysis or exactly the written one.
C11_AnalysisWrittenOnce ==
  /\ \A i \in 1..Len(sends) : Cardinality(CallsBy(i)) <= 1
  /\ \A k \in 1..Len(updateCalls) :
       LET c == updateCalls[k]
       IN /\ c.id = sends[c.by].messageId
          /\ c.id \in 1..Len(messages)
          /\ messages[c.id].createdBy = c.by
          /\ sends[c.by].reply.kind = "http"
          /\ sends[c.by].reply.ok
  /\ \A m \in 1..Len(messages) :
       /\ Cardinality(WritesTo(m)) <= 1
       /\ WritesTo(m) = {} => messages[m].analysis = Absent
       /\ \A k \in WritesTo(m) :
            messages[m].analysis = Stored(updateCalls[k].analysis)

\* Two overlapping sends, one stored with its analysis, the other refused by
\* the relay and left without analysis.
C11_Witness ==
  /\ Len(messages) = 2
  /\ \E m, n \in 1..2 :
       /\ WritesTo(m) # {}
       /\ messages[m].analysis.present
       /\ ~messages[n].analysis.present
       /\ sends[messages[n].createdBy].pc = "done"
       /\ sends[messages[n].createdBy].reply.kind = "http"
       /\ ~sends[messages[n].createdBy].reply.ok

\* ------------------------------------------------------------------------
\* Playback of the AI's audio: AudioAnalysis.playAudioChunk and
\* stopAudioStreaming.  Time is counted in ticks of one frame time, so a
\* chunk of n frames lasts n ticks.
\* ------------------------------------------------------------------------
MaxChunks == 3
MaxClock == 3

\* Byte lengths of the decoded chunks; InvalidBase64 is a text atob rejects.
InvalidBase64 == 0 - 1
ChunkLengths == {InvalidBase64, 0, 2, 3, 4}

\* audioData.length / 2
NumberOfFrames(bytes) == [whole |-> bytes \div 2, exact |-> bytes % 2 = 0]

\* The chunk decodes: atob accepts it, createBuffer accepts the frame count
\* (at least one frame) and every getInt16 stays inside the data.
Decodes(bytes) ==
  /\ bytes # InvalidBase64
  /\ NumberOfFrames(bytes).whole >= 1
  /\ NumberOfFrames(bytes).exact

\* duration = numberOfFrames / sampleRate, in ticks
Duration(bytes) == NumberOfFrames(bytes).whole

\* Slip: the chunk starts at once.
StartTime_Now(now, next) == now

\* Math.max(currentTime, nextStartTimeRef.current)
StartTime(now, next) == IF now >= next THEN now ELSE next

\* The synchronous rest of playAudioChunk, from atob to source.start.
Schedule(bytes) ==
  IF Decodes(bytes)
  THEN LET startTime == StartTime(currentTime, nextStartTime)
       IN /\ scheduled' = Append(scheduled,
                                 [start |-> startTime, duration |-> Duration(bytes),
                                  at |-> currentTime, afterStop |-> stoppedSince])
          /\ nextStartTime' = startTime + Duration(bytes)
          /\ stoppedSince' = FALSE
  ELSE UNCHANGED <<scheduled, nextStartTime, stoppedSince>>

\* playAudioChunk is called with a chunk of the socket.  The context is
\* created on the first call; while it is suspended the call waits for
\* audioContext.resume().
PlayAudioChunk ==
  /\ chunksHandled < MaxChunks
  /\ chunksHandled' = chunksHandled + 1
  /\ \E bytes \in ChunkLengths, state \in {"suspended", "running"} :
       LET ctx == IF playbackContext = "none" THEN state ELSE playbackContext
       IN /\ playbackContext' = ctx
          /\ IF ctx = "suspended"
             THEN /\ resuming' = Append(resuming, bytes)
                  /\ UNCHANGED <<scheduled, nextStartTime, stoppedSince>>
             ELSE /\ Schedule(bytes)
                  /\ UNCHANGED resuming
  /\ UNCHANGED currentTime

\* audioContext.resume() settles for one waiting call: the context runs and
\* the call goes on, or the promise rejects and the call ends in its catch.
ResumeSettles ==
  \E i \in 1..Len(resuming) :
    /\ resuming' = SubSeq(resuming, 1, i - 1) \o SubSeq(resuming, i + 1, Len(resuming))
    /\ \/ /\ playbackContext' = "running"
          /\ Schedule(resuming[i])
       \/ UNCHANGED <<playbackContext, scheduled, nextStartTime, stoppedSince>>
    /\ UNCHANGED <<currentTime, chunksHandled>>

\* The clock of the running context advances.
ClockAdvances ==
  /\ playbackContext = "running"
  /\ currentTime < MaxClock
  /\ currentTime' = currentTime + 1
  /\ UNCHANGED <<playbackContext, nextStartTime, scheduled, resuming,
                 chunksHandled, stoppedSince>>

\* stopAudioStreaming (from stopListening or the unmount cleanup): every
\* source is stopped, the list emptied and nextStartTimeRef reset.
StopAudioStreaming ==
  /\ nextStartTime' = 0
  /\ stoppedSince' = TRUE
  /\ UNCHANGED <<playbackContext, currentTime, scheduled, resuming, chunksHandled>>

NextPlayback ==
  \/ PlayAudioChunk /\ UNCHANGED notPlayback
  \/ ResumeSettles /\ UNCHANGED notPlayback
  \/ ClockAdvances /\ UNCHANGED notPlayback
  \/ StopAudioStreaming /\ UNCHANGED notPlayback

SpecPlayback == Init /\ [][NextPlayback]_vars

EndTime(c) == c.start + c.duration

\* C12: the start times of the chunks handled by playAudioChunk are
\* non-decreasing and non-overlapping: every chunk starts no earlier than
\* the start of the chunk scheduled before it plus that chunk's duration.
C12_PlaybackOrdered ==
  \A i \in 1..(Len(scheduled) - 1) :
    scheduled[i + 1].start >= EndTime(scheduled[i])

\* C12, amended: the same between chunks with no stopAudioStreaming in
\* between; after a stop the next chunk starts at the current time.
C12_PlaybackOrderedAmended ==
  \A i \in 1..(Len(scheduled) - 1) :
    IF scheduled[i + 1].afterStop
    THEN scheduled[i + 1].start = scheduled[i + 1].at
    ELSE scheduled[i + 1].start >= EndTime(scheduled[i])

\* A chunk that arrived while the chunk before it was still playing, queued
\* behind it, and a later chunk scheduled after a stop.
C12_Witness ==
  /\ Len(scheduled) = 3
  /\ ~scheduled[2].afterStop
  /\ scheduled[2].at < scheduled[2].start
  /\ scheduled[2].start = EndTime(scheduled[1])
  /\ scheduled[3].afterStop
  /\ scheduled[3].start < EndTime(scheduled[2])

\* ------------------------------------------------------------------------
\* The realtime-analysis WebSocket of the chat clients and its reconnects:
\*   "room"           ChatRoom.connectWebSocket (ChatRoom.tsx 61-149)
\*   "capped"         ChatInterface, ChatAnalysisReport.tsx 683-760
\*   "unconditional"  ChatInterface, ChatAnalysisReport.tsx 1236-1276
\* One component is mounted once and unmounted once; its timers outlive it.
\* While mounted, the room of ChatRoom may change, which re-runs its effect.
\* ------------------------------------------------------------------------
MaxTries == 7
MaxRoomChanges == 1

Revisions == {"room", "capped", "unconditional"}

ReconnectDelay == 3000
ConnectDelay == 100
MaxReconnectAttempts == 5

\* Close codes: 1000 is the normal closure, 1001 the peer going away, 1005
\* what the close event carries after close() without a code, 1006 a
\* connection that failed or was lost.
NormalClosure == 1000
GoingAway == 1001
NoStatusReceived == 1005
AbnormalClosure == 1006

\* new WebSocket(url), created while the component is in mount state m.
NewSocket(m) == [state |-> "connecting", code |-> 0, createdWhile |-> m]
Timer(delay) == [delay |-> delay]

\* ws.close(code): an open socket starts the closing handshake and its close
\* event will carry the code; a connecting socket fails; else nothing.
Close(sock, code) ==
  CASE sock.state = "open" -> [sock EXCEPT !.state = "closing", !.code = code]
    [] sock.state = "connecting" ->
         [sock EXCEPT !.state = "closing", !.code = AbnormalClosure]
    [] OTHER -> sock

\* The codes the close event of a socket can carry.
EventCodes(sock) ==
  CASE sock.state = "closing" -> {sock.code}
    [] sock.state = "connecting" -> {AbnormalClosure}
    [] OTHER -> {NormalClosure, GoingAway, AbnormalClosure}

\* Slip: no limit on the attempts.
ShouldReconnect_Uncapped(rev, code, attempts) == code # NormalClosure

\* The condition of onclose under which a reconnect is scheduled.
ShouldReconnect(rev, code, attempts) ==
  CASE rev = "room" -> code # NormalClosure
    [] rev = "capped" -> code # NormalClosure /\ attempts < MaxReconnectAttempts
    [] OTHER -> TRUE

\* The same in the catch block around new WebSocket(...).
RetryAfterThrow(rev, attempts) ==
  CASE rev = "room" -> TRUE
    [] rev = "capped" -> attempts < MaxReconnectAttempts
    [] OTHER -> FALSE

\* setTimeout(connectWebSocket, 3000) when retry holds, with reconnectAttempts++
\* in the capped revision; ts are the timers pending before.
ScheduleReconnect(retry, rev, ts) ==
  /\ timers' = IF retry THEN Append(ts, Timer(ReconnectDelay)) ELSE ts
  /\ reconnectAttempts' =
       IF retry /\ rev = "capped" THEN reconnectAttempts + 1 ELSE reconnectAttempts
  /\ scheduledSinceOpen' =
       IF retry /\ scheduledSinceOpen <= MaxReconnectAttempts
       THEN scheduledSinceOpen + 1 ELSE scheduledSinceOpen

\* connectWebSocket of revision rev.  The room revision returns while its
\* socket is connecting; room and capped close the socket they hold; the
\* constructor yields a connecting socket or throws.
ConnectWebSocket(rev, ts) ==
  /\ tries' = tries + 1
  /\ IF rev = "room" /\ wsRef # 0 /\ sockets[wsRef].state = "connecting"
     THEN /\ timers' = ts
          /\ UNCHANGED <<sockets, wsRef, reconnectAttempts, scheduledSinceOpen>>
     ELSE \E throws \in BOOLEAN :
            LET old == IF rev \in {"room", "capped"} /\ wsRef # 0
                       THEN [sockets EXCEPT ![wsRef] = Close(@, NoStatusReceived)]
                       ELSE sockets
            IN /\ sockets' = IF throws THEN old
                             ELSE Append(old, NewSocket(mountState))
               /\ wsRef' = IF throws THEN wsRef ELSE Len(old) + 1
               /\ ScheduleReconnect(throws /\ RetryAfterThrow(rev, reconnectAttempts),
                                    rev, ts)

\* The component mounts: the effect calls connectWebSocket, in the room
\* revision through a timer of 100 ms.
Mount ==
  /\ mountState = "new"
  /\ mountState' = "mounted"
  /\ \E rev \in Revisions :
       /\ revision' = rev
       /\ IF rev = "room"
          THEN /\ timers' = <<Timer(ConnectDelay)>>
               /\ UNCHANGED <<sockets, wsRef, reconnectAttempts, scheduledSinceOpen, tries>>
          ELSE ConnectWebSocket(rev, timers)
  /\ UNCHANGED <<everOpened, lastClose, roomChanges>>

\* A timer fires and calls connectWebSocket.
TimerFires ==
  /\ tries < MaxTries
  /\ \E i \in 1..Len(timers) :
       ConnectWebSocket(revision,
                        SubSeq(timers, 1, i - 1) \o SubSeq(timers, i + 1, Len(timers)))
  /\ UNCHANGED <<revision, mountState, everOpened, lastClose, roomChanges>>

\* The open event of a connecting socket: onopen.
SocketOpens ==
  /\ \E i \in 1..Len(sockets) :
       /\ sockets[i].state = "connecting"
       /\ sockets' = [sockets EXCEPT ![i].state = "open"]
  /\ reconnectAttempts' = IF revision = "capped" THEN 0 ELSE reconnectAttempts
  /\ scheduledSinceOpen' = 0
  /\ everOpened' = TRUE
  /\ UNCHANGED <<revision, mountState, wsRef, timers, tries, lastClose,
                 roomChanges>>

\* The close event of a socket: onclose.
SocketCloses ==
  /\ \E i \in 1..Len(sockets) :
       /\ sockets[i].state # "closed"
       /\ \E code \in EventCodes(sockets[i]) :
            LET retry == ShouldReconnect(revision, code, reconnectAttempts)
            IN /\ sockets' = [sockets EXCEPT ![i].state = "closed", ![i].code = 0]
               /\ ScheduleReconnect(retry, revision, timers)
               /\ lastClose' = [code |-> code,
                                scheduled |-> Len(timers') - Len(timers),
                                delay |-> IF retry THEN timers'[Len(timers')].delay ELSE 0]
  /\ UNCHANGED <<revision, mountState, wsRef, tries, everOpened, roomChanges>>

\* The cleanup of the effect: the room revision clears its connect timer and
\* closes with code 1000, the capped revision closes with code 1000, the
\* unconditional one closes without a code.  Reconnect timers stay.
Unmount ==
  /\ mountState = "mounted"
  /\ mountState' = "unmounted"
  /\ timers' = SelectSeq(timers, LAMBDA t : t.delay # ConnectDelay)
  /\ sockets' = IF wsRef = 0 THEN sockets
                ELSE [sockets EXCEPT ![wsRef] =
                        Close(@, IF revision = "unconditional" THEN NoStatusReceived
                                 ELSE NormalClosure)]
  /\ UNCHANGED <<revision, wsRef, reconnectAttempts, scheduledSinceOpen, tries,
                 everOpened, lastClose, roomChanges>>

\* room.id changes while ChatRoom is mounted: the cleanup of the effect runs
\* (connect timer cleared, socket closed with code 1000), then the effect
\* sets a new connect timer.  Reconnect timers stay.
RoomChanges ==
  /\ mountState = "mounted"
  /\ revision = "room"
  /\ roomChanges < MaxRoomChanges
  /\ roomChanges' = roomChanges + 1
  /\ timers' = Append(SelectSeq(timers, LAMBDA t : t.delay # ConnectDelay),
                      Timer(ConnectDelay))
  /\ sockets' = IF wsRef = 0 THEN sockets
                ELSE [sockets EXCEPT ![wsRef] = Close(@, NormalClosure)]
  /\ UNCHANGED <<revision, mountState, wsRef, reconnectAttempts,
                 scheduledSinceOpen, tries, everOpened, lastClose>>

NextSocket ==
  \/ Mount /\ UNCHANGED notSocket
  \/ RoomChanges /\ UNCHANGED notSocket
  \/ TimerFires /\ UNCHANGED notSocket
  \/ SocketOpens /\ UNCHANGED notSocket
  \/ SocketCloses /\ UNCHANGED notSocket
  \/ Unmount /\ UNCHANGED notSocket

SpecSocket == Init /\ [][NextSocket]_vars

\* C13: the handler of a close event with a code other than 1000 schedules
\* exactly one reconnect, 3000 ms later; the handler of a close event with
\* code 1000 schedules none.
C13_ReconnectOnNonCleanClose ==
  lastClose.code # 0 =>
    IF lastClose.code # NormalClosure
    THEN lastClose.scheduled = 1 /\ lastClose.delay = ReconnectDelay
    ELSE lastClose.scheduled = 0

\* C14: in the capped revision at most 5 reconnects are scheduled since the
\* last open, the counter counts them and is 0 after an open; while no
\* socket has opened, connectWebSocket runs at most 1 + 5 times.
C14_CappedReconnects ==
  revision = "capped" =>
    /\ scheduledSinceOpen <= MaxReconnectAttempts
    /\ reconnectAttempts = scheduledSinceOpen
    /\ ~everOpened => tries <= MaxReconnectAttempts + 1

\* The endpoint never accepted: after the first try and five retries every
\* socket is closed and no timer is pending.
C14_Witness ==
  /\ revision = "capped"
  /\ mountState = "mounted"
  /\ ~everOpened
  /\ tries = MaxReconnectAttempts + 1
  /\ reconnectAttempts = MaxReconnectAttempts
  /\ timers = <<>>
  /\ \A i \in 1..Len(sockets) : sockets[i].state = "closed"
  /\ lastClose.code = AbnormalClosure

\* ------------------------------------------------------------------------
\* The audio session: AudioAnalysis.startListening, connectWebSocket,
\* sendAudioChunk, stopListening and the unmount cleanup.  The start button
\* is shown while isListening is false, which startListening sets only after
\* its awaits, so it can be pressed again before they resolve.
\* ------------------------------------------------------------------------
MaxStarts == 2
MaxSent == 1

DefaultSampleRate == 16000

\* session_config.sample_rate of the configuration: 0 stands for a
\* configuration without it.
ConfigRates == {0, DefaultSampleRate}

\* The start_session message of onopen.
StartSession(rate) ==
  [type |-> "start_session", language |-> "ja-JP",
   model |-> "gemini-2.0-flash-live-preview-04-09",
   sample_rate |-> IF rate = 0 THEN DefaultSampleRate ELSE rate]
AudioChunkMessage == [type |-> "audio_chunk", language |-> "", model |-> "", sample_rate |-> 0]
StopSession == [type |-> "stop_session", language |-> "", model |-> "", sample_rate |-> 0]

\* Slip: onopen only records the connection state.
OnOpen_Silent(rate) == <<>>

\* What ws.onopen sends.
OnOpen(rate) == <<StartSession(rate)>>

\* new WebSocket(wsUrl)
NewAudioSocket ==
  [state |-> "connecting", code |-> 0, opened |-> FALSE, sent |-> <<>>]

\* websocketRef.current?.readyState === WebSocket.OPEN
RefIsOpen == websocketRef # 0 /\ audioSockets[websocketRef].state = "open"

\* What ws.onclose and ws.onerror do besides setConnectionState.
AudioOnClose(code) == [code |-> code, reconnect |-> FALSE]

\* stopAudioRecording
StopAudioRecording ==
  /\ liveProcessors' = IF processorRef THEN liveProcessors - 1 ELSE liveProcessors
  /\ processorRef' = FALSE

\* The start button: connectWebSocket runs up to its await of the
\* configuration (or returns at once on an open socket) and getUserMedia is
\* requested.
StartListening ==
  /\ audioMounted /\ ~isListening
  /\ starts < MaxStarts
  /\ starts' = starts + 1
  /\ configFetches' = IF RefIsOpen THEN configFetches ELSE configFetches + 1
  /\ micRequests' = micRequests + 1
  /\ stopRan' = FALSE
  /\ UNCHANGED <<audioMounted, isListening, audioSockets, websocketRef, streams,
                 streamRef, liveProcessors, processorRef, audioClose>>

\* getWebSocketConfig settles: with a configuration the socket is created
\* and stored in websocketRef, else connectWebSocket ends in its catch.
ConfigSettles ==
  /\ configFetches > 0
  /\ configFetches' = configFetches - 1
  /\ \/ /\ audioSockets' = Append(audioSockets, NewAudioSocket)
        /\ websocketRef' = Len(audioSockets) + 1
     \/ UNCHANGED <<audioSockets, websocketRef>>
  /\ UNCHANGED <<audioMounted, isListening, stopRan, starts, micRequests, streams,
                 streamRef, liveProcessors, processorRef, audioClose>>

\* getUserMedia settles: with a stream, streamRef is set, setupAudioStreaming
\* connects a processor and isListening becomes true; else the catch block.
MicSettles ==
  /\ micRequests > 0
  /\ micRequests' = micRequests - 1
  /\ \/ /\ streams' = Append(streams, TRUE)
        /\ streamRef' = Len(streams) + 1
        /\ liveProcessors' = liveProcessors + 1
        /\ processorRef' = TRUE
        /\ isListening' = TRUE
     \/ UNCHANGED <<streams, streamRef, liveProcessors, processorRef, isListening>>
  /\ UNCHANGED <<audioMounted, stopRan, starts, configFetches, audioSockets,
                 websocketRef, audioClose>>

\* The open event of an audio socket: ws.onopen, with the sample rate of
\* the configuration its connectWebSocket call received.
AudioSocketOpens ==
  /\ \E i \in 1..Len(audioSockets), rate \in ConfigRates :
       /\ audioSockets[i].state = "connecting"
       /\ audioSockets' = [audioSockets EXCEPT
                             ![i].state = "open", ![i].opened = TRUE,
                             ![i].sent = @ \o OnOpen(rate)]
  /\ UNCHANGED <<audioMounted, isListening, stopRan, starts, configFetches,
                 micRequests, websocketRef, streams, streamRef, liveProcessors,
                 processorRef, audioClose>>

\* The error and close events of an audio socket: ws.onerror, ws.onclose.
AudioSocketCloses ==
  /\ \E i \in 1..Len(audioSockets) :
       /\ audioSockets[i].state # "closed"
       /\ \E code \in EventCodes(audioSockets[i]) :
            /\ audioSockets' = [audioSockets EXCEPT ![i].state = "closed", ![i].code = 0]
            /\ audioClose' = AudioOnClose(code)
  /\ UNCHANGED <<audioMounted, isListening, stopRan, starts, configFetches,
                 micRequests, websocketRef, streams, streamRef, liveProcessors,
                 processorRef>>

\* onaudioprocess of a connected processor: sendAudioChunk.
SendAudioChunk ==
  /\ liveProcessors > 0
  /\ RefIsOpen
  /\ Len(SelectSeq(audioSockets[websocketRef].sent,
                   LAMBDA m : m.type = "audio_chunk")) < MaxSent
  /\ audioSockets' = [audioSockets EXCEPT ![websocketRef].sent = Append(@, AudioChunkMessage)]
  /\ UNCHANGED <<audioMounted, isListening, stopRan, starts, configFetches,
                 micRequests, websocketRef, streams, streamRef, liveProcessors,
                 processorRef, audioClose>>

\* The stop button: stopListening.
StopListening ==
  /\ audioMounted /\ isListening
  /\ streams' = IF streamRef = 0 THEN streams ELSE [streams EXCEPT ![streamRef] = FALSE]
  /\ streamRef' = 0
  /\ StopAudioStreaming
  /\ StopAudioRecording
  /\ audioSockets' = IF RefIsOpen
                     THEN [audioSockets EXCEPT ![websocketRef].sent = Append(@, StopSession)]
                     ELSE audioSockets
  /\ isListening' = FALSE
  /\ stopRan' = TRUE
  /\ UNCHANGED <<audioMounted, starts, configFetches, micRequests, websocketRef,
                 audioClose>>

\* The cleanup of the component: disconnectWebSocket, stopAudioStreaming,
\* stopAudioRecording.
AudioUnmount ==
  /\ audioMounted
  /\ audioMounted' = FALSE
  /\ audioSockets' =
       IF websocketRef = 0 THEN audioSockets
       ELSE LET closing == Close(audioSockets[websocketRef], NoStatusReceived)
            IN [audioSockets EXCEPT ![websocketRef].state = closing.state,
                                    ![websocketRef].code = closing.code]
  /\ websocketRef' = 0
  /\ StopAudioStreaming
  /\ StopAudioRecording
  /\ UNCHANGED <<isListening, stopRan, starts, configFetches, micRequests, streams,
                 streamRef, audioClose>>

NextAudio ==
  \/ StartListening /\ UNCHANGED <<notAudio, playbackVars>>
  \/ ConfigSettles /\ UNCHANGED <<notAudio, playbackVars>>
  \/ MicSettles /\ UNCHANGED <<notAudio, playbackVars>>
  \/ AudioSocketOpens /\ UNCHANGED <<notAudio, playbackVars>>
  \/ AudioSocketCloses /\ UNCHANGED <<notAudio, playbackVars>>
  \/ SendAudioChunk /\ UNCHANGED <<notAudio, playbackVars>>
  \/ StopListening /\ UNCHANGED notAudio
  \/ AudioUnmount /\ UNCHANGED notAudio

SpecAudio == Init /\ [][NextAudio]_vars

OpenAudioSockets == {i \in 1..Len(audioSockets) : audioSockets[i].state = "open"}
LiveStreams == {i \in 1..Len(streams) : streams[i]}

\* C15: on every audio socket that opened, the first message sent is the
\* start_session of onopen, carrying language, model and sample rate, and no
\* other start_session follows; nothing is sent on a socket before it opens.
C15_OneStartSession ==
  \A i \in 1..Len(audioSockets) :
    LET sent == audioSockets[i].sent
    IN IF audioSockets[i].opened
       THEN /\ Len(sent) >= 1
            /\ sent[1] = [type |-> "start_session", language |-> "ja-JP",
                          model |-> "gemini-2.0-flash-live-preview-04-09",
                          sample_rate |-> DefaultSampleRate]
            /\ \A k \in 2..Len(sent) : sent[k].type # "start_session"
       ELSE sent = <<>>

\* Two sockets opened by two presses of the start button: the one the
\* client holds carried audio and a stop_session after its start_session, the
\* other only its start_session.
C15_Witness ==
  /\ Len(audioSockets) = 2
  /\ audioSockets[1].sent = <<StartSession(0)>>
  /\ audioSockets[2].sent = <<StartSession(DefaultSampleRate), AudioChunkMessage, StopSession>>
  /\ OpenAudioSockets = {1, 2}

\* C16: once stopListening has run, the socket of the session is not open.
C16_StopClosesSocket == stopRan => ~RefIsOpen

\* C17: after a close event with a code other than 1000 (or an error), the
\* handler has started a reconnect.
C17_AudioReconnects ==
  audioClose.code \notin {0, NormalClosure} => audioClose.reconnect

\* C18: at most one live microphone stream, at most one open audio socket
\* (and the one playback context of playbackContext).
C18_SingleResources ==
  /\ Cardinality(LiveStreams) <= 1
  /\ Cardinality(OpenAudioSockets) <= 1
  /\ playbackContext \in {"none", "suspended", "running"}

\* ------------------------------------------------------------------------
\* The session configuration route: GET and POST of
\* app/api/audio-analysis/route.ts.  The handlers run on the state of the
\* relays (pc, handler, bodyText, calls, response, served); their one
\* upstream call is the health check of the backend.
\* ------------------------------------------------------------------------
AudioHandlers == {"audio_get", "audio_post"}

RouteSampleRate == 16000
ChunkSize == 4096

\* process.env.BACKEND_WS_URL, which the deployment (service.yaml) sets.
WsUrls == {Str("wss://backend/ws/audio-analysis"), Str("ws://localhost/ws/audio-analysis")}

\* The configuration object; the members of session_config are written with
\* their path, backend_status is answered by GET only.
SessionConfig(h, wsUrl) ==
  Literal(<< <<"websocket_url", wsUrl>>,
             <<"session_config.sample_rate", Num(RouteSampleRate * 100)>>,
             <<"session_config.chunk_size", Num(ChunkSize * 100)>>,
             <<"session_config.audio_format", Str("pcm")>>,
             <<"backend_status", IF h = "audio_get" THEN Str("online") ELSE Undefined>> >>)

Offline(msg, h) ==
  Literal(<< <<"error", Str(msg)>>,
             <<"status", IF h = "audio_get" THEN Str("offline") ELSE Undefined>> >>)

\* The catch blocks of GET and POST.
AudioCatch(h) ==
  IF h = "audio_get"
  THEN Response(503, Offline("Failed to connect to backend service", h))
  ELSE Response(500, ErrorBody("Failed to setup audio analysis session"))

\* The handler from the settled health check on.
AudioConfigResult(h, r, wsUrl) ==
  IF IsRejected(r) THEN AudioCatch(h)
  ELSE IF ~r.ok THEN Response(503, Offline("Backend service is not available", h))
  ELSE Response(200, SessionConfig(h, wsUrl))

\* A request arrives: GET starts the health check at once, POST reads its
\* body first.
AudioReceive ==
  /\ pc = "idle"
  /\ served < MaxRequests
  /\ \E h \in AudioHandlers, b \in BodyTexts :
       /\ handler' = h
       /\ bodyText' = IF h = "audio_get" THEN NullText ELSE b
       /\ pc' = IF h = "audio_get" THEN "fetch" ELSE "body"
       /\ calls' = IF h = "audio_get" THEN <<Call("/health", NullValue)>> ELSE <<>>
  /\ response' = NoResponse
  /\ UNCHANGED <<authHeader, decodedToken, accepted, served, upstreamCalls, callsAtStart>>
  /\ UNCHANGED clientVars

\* POST: await request.json(), then the health check starts.
AudioReadBody ==
  /\ pc = "body"
  /\ handler = "audio_post"
  /\ IF ParseJSON(bodyText).ok
     THEN /\ calls' = <<Call("/health", NullValue)>>
          /\ pc' = "fetch"
          /\ UNCHANGED <<response, served>>
     ELSE /\ Finish(AudioCatch(handler))
          /\ UNCHANGED calls
  /\ UNCHANGED <<handler, authHeader, bodyText, decodedToken, accepted,
                 upstreamCalls, callsAtStart>>
  /\ UNCHANGED clientVars

\* The health check is settled: the rest of the handler.
AudioRespond ==
  /\ pc = "fetch"
  /\ handler \in AudioHandlers
  /\ calls[1].reply # Pending
  /\ \E wsUrl \in WsUrls : Finish(AudioConfigResult(handler, calls[1].reply, wsUrl))
  /\ UNCHANGED <<handler, authHeader, bodyText, decodedToken, accepted, calls,
                 upstreamCalls, callsAtStart>>
  /\ UNCHANGED clientVars

NextAudioRoute ==
  \/ AudioReceive
  \/ AudioReadBody
  \/ UpstreamSettles
  \/ AudioRespond
  \/ NextRequest

SpecAudioRoute == Init /\ [][NextAudioRoute]_vars

HealthChecked == handler \in AudioHandlers /\ pc = "done" /\ calls # <<>>
HealthOk == calls[1].reply.kind = "http" /\ calls[1].reply.ok

\* C19: GET and POST /api/audio-analysis answer 503 whenever the health
\* check did not succeed, and answer 200 only after a successful health
\* check, with websocket_url and session_config {16000, 4096, "pcm"}.
C19_AudioConfigStatus ==
  /\ HealthChecked /\ ~HealthOk => response.status = 503
  /\ handler \in AudioHandlers /\ pc = "done" /\ response.status = 200 =>
       /\ calls # <<>> /\ HealthOk
       /\ ResponseField("websocket_url").t = "str"
       /\ ResponseField("session_config.sample_rate") = Num(1600000)
       /\ ResponseField("session_config.chunk_size") = Num(409600)
       /\ ResponseField("session_config.audio_format") = Str("pcm")

\* ------------------------------------------------------------------------
\* The debounced preview of the chat input: handleRealtimeAnalysis of
\* ChatRoom.tsx 191-207, part_002 128-150 and ChatAnalysisReport.tsx
\* 837-864, with the detection mode toggle of part_002 400-407.  Time
\* advances in steps of half the delay.
\* ------------------------------------------------------------------------
MaxChanges == 3

PreviewDelay == 500
TickMs == PreviewDelay \div 2

PreviewClients == {"ChatRoom", "part_002", "ChatInterface"}
TypedTexts == {"", " ", "hello", "hello!"}

\* realtimeAnalysis: null, or the analysis result of a text.
NoAnalysis == [shown |-> FALSE, text |-> ""]
AnalysisOf(text) == [shown |-> TRUE, text |-> text]

\* The timers left after clearTimeout(id).
ClearTimeout(ts, id) == SelectSeq(ts, LAMBDA t : t.id # id)

\* The chat view is opened; part_002 starts with the detection mode off.
OpenChat ==
  /\ previewClient = "none"
  /\ \E c \in PreviewClients :
       /\ previewClient' = c
       /\ isAnalysisMode' = (c # "part_002")
  /\ UNCHANGED <<message, previewTimers, previewTimeoutRef, sinceChange, changes,
                 lastRequest, previewRequests, realtimeAnalysis>>

\* onChange of the input: handleRealtimeAnalysis(value).  With the detection
\* mode off it resets the preview and returns before the timer is cleared.
HandleRealtimeAnalysis ==
  /\ previewClient # "none"
  /\ changes < MaxChanges
  /\ \E value \in TypedTexts \ {message} :
       /\ message' = value
       /\ IF ~isAnalysisMode
          THEN /\ realtimeAnalysis' = NoAnalysis
               /\ UNCHANGED <<previewTimers, previewTimeoutRef>>
          ELSE LET cleared == ClearTimeout(previewTimers, previewTimeoutRef)
               IN IF Trim(value) # ""
                  THEN /\ previewTimers' =
                            Append(cleared, [id |-> changes + 1, text |-> value, ms |-> 0])
                       /\ previewTimeoutRef' = changes + 1
                       /\ UNCHANGED realtimeAnalysis
                  ELSE /\ previewTimers' = cleared
                       /\ realtimeAnalysis' = NoAnalysis
                       /\ UNCHANGED previewTimeoutRef
  /\ sinceChange' = 0
  /\ changes' = changes + 1
  /\ UNCHANGED <<previewClient, isAnalysisMode, lastRequest, previewRequests>>

\* The detection mode toggle of part_002: switching the mode off resets the
\* preview; the pending timer and the requests in flight are left alone.
ToggleAnalysisMode ==
  /\ previewClient = "part_002"
  /\ isAnalysisMode' = ~isAnalysisMode
  /\ realtimeAnalysis' = IF isAnalysisMode THEN NoAnalysis ELSE realtimeAnalysis
  /\ UNCHANGED <<previewClient, message, previewTimers, previewTimeoutRef,
                 sinceChange, changes, lastRequest, previewRequests>>

\* Time passes.
Tick ==
  /\ previewClient # "none"
  /\ sinceChange < PreviewDelay \/ \E i \in 1..Len(previewTimers) : previewTimers[i].ms < PreviewDelay
  /\ sinceChange' = IF sinceChange < PreviewDelay THEN sinceChange + TickMs ELSE sinceChange
  /\ previewTimers' = [i \in 1..Len(previewTimers) |->
                         IF previewTimers[i].ms < PreviewDelay
                         THEN [previewTimers[i] EXCEPT !.ms = @ + TickMs]
                         ELSE previewTimers[i]]
  /\ UNCHANGED <<previewClient, message, isAnalysisMode, previewTimeoutRef,
                 changes, lastRequest, previewRequests, realtimeAnalysis>>

\* A timer whose delay has passed fires: performPreviewAnalysis(text) issues
\* the preview request (the text of a timer is never blank, and the user is
\* signed in).
PreviewTimerFires ==
  /\ \E i \in 1..Len(previewTimers) :
       /\ previewTimers[i].ms >= PreviewDelay
       /\ previewTimers' = ClearTimeout(previewTimers, previewTimers[i].id)
       /\ lastRequest' = [issued |-> TRUE, text |-> previewTimers[i].text,
                          latest |-> message, quiet |-> sinceChange,
                          mode |-> isAnalysisMode]
       /\ previewRequests' = Append(previewRequests,
                                    [id |-> previewTimers[i].id,
                                     text |-> previewTimers[i].text])
  /\ UNCHANGED <<previewClient, message, isAnalysisMode, previewTimeoutRef,
                 sinceChange, changes, realtimeAnalysis>>

\* A preview request settles, in any order: performPreviewAnalysis resumes
\* after its fetch and shows the result, or null when the answer is not ok
\* or the fetch failed.
PreviewSettles ==
  /\ \E i \in 1..Len(previewRequests), ok \in BOOLEAN :
       /\ previewRequests' = SelectSeq(previewRequests,
                                       LAMBDA r : r.id # previewRequests[i].id)
       /\ realtimeAnalysis' = IF ok THEN AnalysisOf(previewRequests[i].text)
                                    ELSE NoAnalysis
  /\ UNCHANGED <<previewClient, message, isAnalysisMode, previewTimers,
                 previewTimeoutRef, sinceChange, changes, lastRequest>>

NextPreview ==
  \/ OpenChat /\ UNCHANGED notPreview
  \/ HandleRealtimeAnalysis /\ UNCHANGED notPreview
  \/ ToggleAnalysisMode /\ UNCHANGED notPreview
  \/ Tick /\ UNCHANGED notPreview
  \/ PreviewTimerFires /\ UNCHANGED notPreview
  \/ PreviewSettles /\ UNCHANGED notPreview

SpecPreview == Init /\ [][NextPreview]_vars

\* C20: at most one preview timer is pending, and a preview request is issued
\* only for the text of the most recent input change, once 500 ms have
\* passed since that change.
C20_DebouncedPreview ==
  /\ Len(previewTimers) <= 1
  /\ lastRequest.issued =>
       /\ lastRequest.text = lastRequest.latest
       /\ lastRequest.quiet >= PreviewDelay

\* C21: in part_002, while the detection mode is off no preview request is
\* issued and realtimeAnalysis stays null, also when the mode was switched
\* off with a preview timer or a preview request outstanding.
C21_NoPreviewWhileOff ==
  /\ lastRequest.issued => lastRequest.mode
  /\ previewClient = "part_002" /\ ~isAnalysisMode => realtimeAnalysis = NoAnalysis

\* C22: in ChatRoom, once every outstanding preview request has completed,
\* realtimeAnalysis is the result of the most recently submitted text (or
\* null), and null when the input was emptied afterwards.
C22_LatestPreviewWins ==
  previewClient = "ChatRoom" /\ lastRequest.issued /\ previewRequests = <<>> =>
    /\ realtimeAnalysis \in {NoAnalysis, AnalysisOf(lastRequest.text)}
    /\ Trim(message) = "" => realtimeAnalysis = NoAnalysis

\* The invocations of handleSendMessage that await something.
InFlight == {i \in 1..Len(sends) : sends[i].pc \notin {"returned", "done"}}

\* C23: at most one invocation of handleSendMessage is in flight at any
\* time, and one composed text produces at most one message document.
C23_OneSendInFlight ==
  /\ Cardinality(InFlight) <= 1
  /\ \A m, n \in 1..Len(messages) :
       sends[messages[m].createdBy].draft = sends[messages[n].createdBy].draft
         => m = n

\* C30: sendMessage is all-or-nothing: when it rejects, no message document
\* was added; when it resolves, the message document and the room's
\* lastMessage are both written.
C30_SendMessageAtomic ==
  \A i \in 1..Len(sends) :
    /\ sends[i].sendMessage = "rejected" =>
         \A m \in 1..Len(messages) : messages[m].createdBy # i
    /\ sends[i].sendMessage = "resolved" =>
         /\ sends[i].messageId \in 1..Len(messages)
         /\ messages[sends[i].messageId].content = sends[i].text
         /\ messages[sends[i].messageId].createdBy = i
         /\ lastMessage.written

\* The messages sent on a socket since its most recent start_session, or
\* all of them when it sent none.
SinceStart(sent) ==
  LET S == {k \in 1..Len(sent) : sent[k].type = "start_session"}
  IN IF S = {} THEN sent
     ELSE SubSeq(sent, CHOOSE k \in S : \A j \in S : j <= k, Len(sent))

\* C24: on every audio socket, each audio_chunk is sent after a
\* start_session and with no stop_session since the most recent
\* start_session.
C24_ChunksWithinSession ==
  \A i \in 1..Len(audioSockets) :
    LET sent == audioSockets[i].sent
    IN \A k \in 1..Len(sent) :
         sent[k].type = "audio_chunk" =>
           LET before == SinceStart(SubSeq(sent, 1, k))
           IN /\ before[1].type = "start_session"
              /\ \A j \in 1..Len(before) : before[j].type # "stop_session"

\* C25: when every startListening so far failed because the microphone was
\* refused, no audio socket is open and no start_session has been sent.
C25_IdleAfterMicRejected ==
  starts > 0 /\ micRequests = 0 /\ streams = <<>> =>
    /\ OpenAudioSockets = {}
    /\ \A i \in 1..Len(audioSockets) : audioSockets[i].sent = <<>>

\* C26: no WebSocket is created after the component was unmounted.
C26_NoSocketAfterUnmount ==
  \A i \in 1..Len(sockets) : sockets[i].createdWhile # "unmounted"

\* C27: in ChatRoom, a call of connectWebSocket (made by a timer) while the
\* socket held is OPEN leaves that socket held and OPEN, so that with a
\* server that accepts every connection and closes none the client ends up
\* holding one socket that stays OPEN.
C27_TimerKeepsOpenSocket ==
  [][ (/\ revision = "room"
       /\ tries' # tries
       /\ wsRef # 0
       /\ sockets[wsRef].state = "open")
      => wsRef' = wsRef /\ sockets'[wsRef].state = "open" ]_vars

\* ------------------------------------------------------------------------
\* The reverse proxy: the server block of nginx.conf, which listens on the
\* public port and passes each request to the Next.js app (upstream nextjs)
\* or to the backend (upstream python_backend).  It runs on the state of the
\* relays; a request passed to the backend is a call the backend receives
\* with the headers and the body of the client.
\* ------------------------------------------------------------------------
\* The request URIs: the text and its path segments.
Paths ==
  { [text |-> "/", segments |-> <<>>],
    [text |-> "/health", segments |-> <<"health">>],
    [text |-> "/ws/audio-analysis", segments |-> <<"ws", "audio-analysis">>],
    [text |-> "/api/audio-analysis", segments |-> <<"api", "audio-analysis">>],
    [text |-> "/api/chat-analysis", segments |-> <<"api", "chat-analysis">>],
    [text |-> "/api/analyze-message", segments |-> <<"api", "analyze-message">>],
    [text |-> "/api/preview-message", segments |-> <<"api", "preview-message">>] }

\* The locations nested in location /api/: prefix and proxy_pass.
ApiLocations ==
  { [prefix |-> <<"api", "audio-analysis">>, upstream |-> "nextjs", nested |-> {}],
    [prefix |-> <<"api", "chat-analysis">>, upstream |-> "nextjs", nested |-> {}],
    [prefix |-> <<"api">>, upstream |-> "python_backend", nested |-> {}] }

\* The locations of the server block; location /api/ has no proxy_pass of
\* its own but nested locations.
ServerLocations ==
  { [prefix |-> <<"ws">>, upstream |-> "python_backend", nested |-> {}],
    [prefix |-> <<"api">>, upstream |-> "none", nested |-> ApiLocations],
    [prefix |-> <<>>, upstream |-> "nextjs", nested |-> {}],
    [prefix |-> <<"health">>, upstream |-> "nextjs", nested |-> {}] }

\* The prefix location nginx selects among locs: the longest matching one.
LongestPrefix(locs, path) ==
  LET matching == {l \in locs :
                     /\ Len(l.prefix) <= Len(path.segments)
                     /\ SubSeq(path.segments, 1, Len(l.prefix)) = l.prefix}
  IN CHOOSE l \in matching : \A m \in matching : Len(m.prefix) <= Len(l.prefix)

\* The upstream a request is passed to: the location of the server block is
\* selected, then the one among its nested locations.
ProxyPass(path) ==
  LET outer == LongestPrefix(ServerLocations, path)
  IN IF outer.nested = {} THEN outer.upstream
     ELSE LongestPrefix(outer.nested, path).upstream

\* A request arrives at the public listener.  Passed to the backend it
\* becomes a call there; /api/audio-analysis is handled by its route of the
\* app; any other path is answered by the app (a page, or not found).
ProxyReceive ==
  /\ pc = "idle"
  /\ served < MaxRequests
  /\ \E path \in Paths :
       IF ProxyPass(path) = "python_backend"
       THEN /\ \E a \in AuthHeaders, b \in BodyTexts :
                 /\ authHeader' = a
                 /\ bodyText' = b
                 /\ calls' = <<[endpoint |-> path.text, sent |-> b, reply |-> Pending]>>
            /\ handler' = "python_backend"
            /\ decodedToken' = NoIdentity
            /\ accepted' = FALSE
            /\ pc' = "fetch"
            /\ response' = NoResponse
            /\ upstreamCalls' = upstreamCalls + 1
            /\ callsAtStart' = upstreamCalls
            /\ UNCHANGED served
            /\ UNCHANGED clientVars
       ELSE IF path.text = "/api/audio-analysis"
       THEN AudioReceive
       ELSE /\ handler' = "page"
            /\ calls' = <<>>
            /\ \E status \in {200, 404} : Finish(Response(status, NullValue))
            /\ UNCHANGED <<authHeader, bodyText, decodedToken, accepted,
                           upstreamCalls, callsAtStart>>
            /\ UNCHANGED clientVars

\* The backend has answered a request passed to it (or the connection
\* failed, which nginx answers with 502): the answer goes to the client.
ProxyRespond ==
  /\ pc = "fetch"
  /\ handler = "python_backend"
  /\ calls[1].reply # Pending
  /\ Finish([status |-> IF IsRejected(calls[1].reply) THEN 502
                        ELSE IF calls[1].reply.ok THEN 200 ELSE 500,
             body |-> calls[1].reply.text])
  /\ UNCHANGED <<handler, authHeader, bodyText, decodedToken, accepted, calls,
                 upstreamCalls, callsAtStart>>
  /\ UNCHANGED clientVars

NextProxy ==
  \/ ProxyReceive
  \/ AudioReadBody
  \/ UpstreamSettles
  \/ AudioRespond
  \/ ProxyRespond
  \/ NextRequest

SpecProxy == Init /\ [][NextProxy]_vars

\* C28: no request for /api/analyze-message or /api/preview-message that
\* came in by the public listener reaches the backend without having passed
\* the bearer-token verification of the Next.js route.
C28_VerifiedBeforeBackend ==
  \A i \in 1..Len(calls) :
    calls[i].endpoint \in {"/api/analyze-message", "/api/preview-message"}
      => decodedToken # NoIdentity

\* ------------------------------------------------------------------------
\* The start script: start.sh and part_008.  It runs under set -e, starts
\* its services in the background, installs the trap and waits with
\* wait -n for the first service to exit.
\* ------------------------------------------------------------------------
\* The services a script starts, in the order it starts them.
Services(l) ==
  IF l = "start.sh" THEN <<"backend", "frontend">>
  ELSE <<"backend", "frontend", "nginx">>

\* The straight-line part of the script: the next service is started in the
\* background; once all are started, trap shutdown SIGTERM SIGINT is
\* executed and the script reaches wait -n.
ScriptStep ==
  /\ scriptPc \in {"new", "launching"}
  /\ IF scriptPc = "new"
     THEN /\ \E l \in {"start.sh", "part_008"} : launcher' = l
          /\ scriptPc' = "launching"
          /\ UNCHANGED <<services, trapSet>>
     ELSE LET todo == SelectSeq(Services(launcher),
                                LAMBDA s : services[s].state = "none")
          IN IF todo # <<>>
             THEN /\ services' = [services EXCEPT ![Head(todo)].state = "running"]
                  /\ UNCHANGED <<launcher, scriptPc, trapSet>>
             ELSE /\ trapSet' = TRUE
                  /\ scriptPc' = "wait"
                  /\ UNCHANGED <<launcher, services>>

\* A service exits, by itself or after the SIGTERM of kill, with status 0
\* or another one (1 stands for every status other than 0).
ServiceExits ==
  /\ \E s \in DOMAIN services, status \in {0, 1} :
       /\ services[s].state \in {"running", "signalled"}
       /\ services' = [services EXCEPT ![s] = [state |-> "exited", status |-> status]]
  /\ UNCHANGED <<launcher, scriptPc, trapSet>>

\* SIGTERM or SIGINT reaches the script: without the trap it is terminated;
\* with it, wait returns and shutdown runs.
Signal ==
  /\ scriptPc \in {"launching", "wait", "shutdown", "waitall"}
  /\ scriptPc' = IF trapSet THEN "shutdown" ELSE "killed"
  /\ UNCHANGED <<launcher, services, trapSet>>

\* wait -n returns the status of a service that has exited.  Under set -e a
\* status other than 0 ends the script at once; else shutdown is called.
WaitReturns ==
  /\ scriptPc = "wait"
  /\ \E i \in 1..Len(Services(launcher)) :
       LET s == Services(launcher)[i]
       IN /\ services[s].state = "exited"
          /\ scriptPc' = IF services[s].status = 0 THEN "shutdown" ELSE "exited"
  /\ UNCHANGED <<launcher, services, trapSet>>

\* shutdown: kill $PIDS 2>/dev/null || true
Shutdown ==
  /\ scriptPc = "shutdown"
  /\ services' = [s \in DOMAIN services |->
                    IF services[s].state = "running"
                    THEN [services[s] EXCEPT !.state = "signalled"]
                    ELSE services[s]]
  /\ scriptPc' = "waitall"
  /\ UNCHANGED <<launcher, trapSet>>

\* shutdown: wait $PIDS returns once every service has exited; exit 0.
ScriptExits ==
  /\ scriptPc = "waitall"
  /\ \A s \in DOMAIN services : services[s].state \in {"none", "exited"}
  /\ scriptPc' = "exited"
  /\ UNCHANGED <<launcher, services, trapSet>>

NextScript ==
  \/ ScriptStep /\ UNCHANGED notScript
  \/ ServiceExits /\ UNCHANGED notScript
  \/ Signal /\ UNCHANGED notScript
  \/ WaitReturns /\ UNCHANGED notScript
  \/ Shutdown /\ UNCHANGED notScript
  \/ ScriptExits /\ UNCHANGED notScript

SpecScript == Init /\ [][NextScript]_vars

\* C29: when the script has ended, after the exit of a service (whatever
\* its status) or after SIGTERM or SIGINT, no service it started is still
\* running.
C29_NoServiceOutlivesScript ==
  scriptPc \in {"exited", "killed"} =>
    \A s \in DOMAIN services : services[s].state \in {"none", "exited"}
====
